---- MODULE Spec2Model ----
(***************************************************************************)
(* Model of json_list_of_objects_key_extractor.py: one command-line run    *)
(* that parses -f/-n/-k/-c, loads a JSON list of objects, projects every   *)
(* object onto the requested keys and writes json_output.json or           *)
(* json_output.csv.                                                        *)
(*                                                                         *)
(* Strings given on the command line are sequences of one-character        *)
(* strings.  Python values are named by their repr ("True", "None"), JSON  *)
(* literals by their text ("true", "null").                                *)
(***************************************************************************)
EXTENDS Integers, Sequences, FiniteSets, TLC

\* ------------------------------------------------------------------ bounds
MaxKLen == 3      \* longest -k string enumerated
MaxItems == 2     \* longest input list enumerated
MaxN == 2         \* largest -n enumerated

\* --------------------------------------------------------------- universes
Alphabet == {"a", "b", " ", ","}
Whitespace == {" "}
Comma == ","

KeyNames == {<<"a">>, <<"b">>}          \* keys occurring in input objects
JsonLiterals == {"true", "null"}        \* values occurring in the input file
PyValues == {"True", "None"}            \* the same values once loaded

\* messages printed by the program
MsgCount == "Number of keys provided does not match the -n argument!"
MsgFile == "JSON FILE NOT FOUND!"
MsgKey == "Requested KEY(s) not present in input file!"
MsgJsonOk == "JSON output written to json_output.json"
MsgCsvOk == "CSV output written to json_output.csv"
MsgJsonErr == "Error writing JSON file"
MsgCsvErr == "Error writing CSV file"
MsgUsage == "usage: [-h] -f F -n N -k K [-c]"
MsgArgparseError == "error: invalid or missing argument"
MsgHelp == "help text"

VARIABLES argv, argN, argK, argC, inputFile, pc, keys, data, idx, subset,
          printed, exitCode, ioLog, stages, jsonFile, csvFile, opened

vars == <<argv, argN, argK, argC, inputFile, pc, keys, data, idx, subset,
          printed, exitCode, ioLog, stages, jsonFile, csvFile, opened>>

\* ------------------------------------------------------- string functions
Strings(n) == UNION {[1..m -> Alphabet] : m \in 0..n}

\* str.split(","): the comma-free segments, left to right (never empty list)
RECURSIVE split(_)
split(s) ==
    IF \A i \in 1..Len(s) : s[i] # Comma
    THEN <<s>>
    ELSE LET i == CHOOSE i \in 1..Len(s) :
                      s[i] = Comma /\ \A j \in 1..(i-1) : s[j] # Comma
         IN <<SubSeq(s, 1, i-1)>> \o split(SubSeq(s, i+1, Len(s)))

\* variant: nothing is trimmed
strip_Identity(s) == s

\* str.strip(): drop leading and trailing whitespace
strip(s) ==
    IF \A i \in 1..Len(s) : s[i] \in Whitespace
    THEN <<>>
    ELSE LET lo == CHOOSE i \in 1..Len(s) :
                       s[i] \notin Whitespace
                       /\ \A j \in 1..(i-1) : s[j] \in Whitespace
             hi == CHOOSE i \in 1..Len(s) :
                       s[i] \notin Whitespace
                       /\ \A j \in (i+1)..Len(s) : s[j] \in Whitespace
         IN SubSeq(s, lo, hi)

NonEmpty(t) == Len(t) > 0

\* [key.strip() for key in args.k.split(",") if key.strip()]
ParseKeys(k) ==
    LET parts == split(k)
        stripped == [i \in 1..Len(parts) |-> strip(parts[i])]
    IN SelectSeq(stripped, NonEmpty)

\* ------------------------------------------------------------ JSON values
\* json.load: a JSON literal becomes a Python value
JsonLoadValue(lit) == IF lit = "true" THEN "True" ELSE "None"

\* json.dump: a Python value becomes a JSON literal
JsonText(v) == IF v = "True" THEN "true" ELSE "null"

\* csv.writer: None is written as the empty string, anything else as str(v)
CsvCell(v) == IF v = "None" THEN "" ELSE v

\* An element of the top-level list: an object (isdict, with its members in
\* map) or anything else (a number, a string, a nested list, null).
Objects(vals) == UNION {[ks -> vals] : ks \in SUBSET KeyNames}
Elements(vals) ==
    {[isdict |-> TRUE, map |-> m] : m \in Objects(vals)}
        \cup {[isdict |-> FALSE, map |-> <<>>]}
Lists(vals, n) == UNION {[1..m -> Elements(vals)] : m \in 0..n}

\* What -f names: no file, a file that cannot be opened or read, a file that
\* is not JSON, a JSON value that is not a list, or a JSON list.
NoList == {[state |-> st, items |-> <<>>] :
              st \in {"missing", "unreadable", "invalid", "nonlist"}}
Files(n) == NoList \cup {[state |-> "list", items |-> l] : l \in Lists(JsonLiterals, n)}

\* json.load applied to a whole list
JsonLoad(items) ==
    [i \in 1..Len(items) |->
        [isdict |-> items[i].isdict,
         map |-> [k \in DOMAIN items[i].map |-> JsonLoadValue(items[i].map[k])]]]

\* ------------------------------------------------------------- projection
HasKey(rec, k) == \E j \in 1..Len(rec) : rec[j][1] = k

\* dict.__setitem__ on an insertion-ordered dict: a new key goes last, an
\* existing key keeps its place and takes the new value
SetItem(rec, k, v) ==
    IF HasKey(rec, k)
    THEN [j \in 1..Len(rec) |-> IF rec[j][1] = k THEN <<k, v>> ELSE rec[j]]
    ELSE Append(rec, <<k, v>>)

\* variant: every entry takes the value of the last requested key
DictComp_LastValue(item, ks, acc) ==
    [j \in 1..Len(ks) |-> <<ks[j], item.map[ks[Len(ks)]]>>]

\* {key: item[key] for key in keys}
RECURSIVE DictComp(_, _, _)
DictComp(item, ks, acc) ==
    IF ks = <<>> THEN acc
    ELSE DictComp(item, Tail(ks), SetItem(acc, Head(ks), item.map[Head(ks)]))

\* variant: the entries follow the object's own key order, not the KeySpec's
NewItem_ItemOrder(item, ks) ==
    LET own == << <<"a">>, <<"b">> >>
        InKs(k) == \E j \in 1..Len(ks) : ks[j] = k
    IN DictComp(item, SelectSeq(own, InKs), <<>>)

NewItem(item, ks) == DictComp(item, ks, <<>>)

\* the first requested key that item lacks, if any
MissingKey(item, ks) == \E j \in 1..Len(ks) : ks[j] \notin DOMAIN item.map

\* ---------------------------------------------------------------- output
\* json.dump(data, indent=4): the array of objects, members in dict order
JsonDump(recs) ==
    [i \in 1..Len(recs) |->
        [j \in 1..Len(recs[i]) |-> <<recs[i][j][1], JsonText(recs[i][j][2])>>]]

Get(rec, k) ==
    IF HasKey(rec, k)
    THEN rec[CHOOSE j \in 1..Len(rec) : rec[j][1] = k][2]
    ELSE ""

\* DictWriter.writerow: [rowdict.get(key, restval) for key in fieldnames]
CsvRow(rec, fieldnames) ==
    [j \in 1..Len(fieldnames) |-> CsvCell(Get(rec, fieldnames[j]))]

\* variant: writeheader() is not called
CsvRows_NoHeader(recs, fieldnames) ==
    [i \in 1..Len(recs) |-> CsvRow(recs[i], fieldnames)]

\* writeheader() then writerows(data)
CsvRows(recs, fieldnames) ==
    <<fieldnames>> \o [i \in 1..Len(recs) |-> CsvRow(recs[i], fieldnames)]

Prefixes(rows) == {SubSeq(rows, 1, m) : m \in 0..Len(rows)}

Untouched(f) == f.state \in {"absent", "old"}

\* ------------------------------------------------------------------ state
\* input files tried against every -k string
SampleFiles ==
    NoList \cup
    {[state |-> "list", items |-> l] : l \in
        {<<>>,
         <<[isdict |-> FALSE, map |-> <<>>]>>,
         <<[isdict |-> TRUE, map |-> [k \in KeyNames |-> IF k = <<"a">> THEN "true" ELSE "null"]]>>,
         <<[isdict |-> TRUE, map |-> [k \in {<<"a">>} |-> "true"]],
           [isdict |-> TRUE, map |-> [k \in KeyNames |-> IF k = <<"a">> THEN "null" ELSE "true"]]>>}}

\* -k strings tried against every input file, with the -n that matches them
SampleK == {<<>>, <<"a">>, <<"a", ",", "b">>, <<"b", ",", "a">>, <<"a", ",", "a">>}

PriorFiles == {[state |-> st, content |-> <<>>] : st \in {"absent", "old"}}

Stages == <<"resolve", "load", "validate", "project", "emit">>

Init ==
    /\ \/ /\ argv = "ok"
          /\ argK \in Strings(MaxKLen)
          /\ inputFile \in SampleFiles
          /\ argN \in 0..MaxN
          /\ argC \in BOOLEAN
       \/ /\ argv = "ok"
          /\ argK \in SampleK
          /\ inputFile \in Files(MaxItems)
          /\ argN = Len(ParseKeys(argK))
          /\ argC \in BOOLEAN
       \/ /\ argv \in {"error", "help"}
          /\ argK = <<>>
          /\ inputFile \in NoList
          /\ argN = 0
          /\ argC = FALSE
    /\ jsonFile \in PriorFiles
    /\ csvFile \in PriorFiles
    /\ pc = "resolve"
    /\ keys = <<>>
    /\ data = [islist |-> FALSE, items |-> <<>>]
    /\ idx = 0
    /\ subset = <<>>
    /\ printed = <<>>
    /\ exitCode = -1
    /\ ioLog = <<>>
    /\ stages = <<>>
    /\ opened = {}

\* print(...) for each line, then sys.exit(code)
Exit(lines, code) ==
    /\ printed' = printed \o lines
    /\ exitCode' = code
    /\ pc' = "exit"

\* variant: the -n check is left out
Resolve_NoCountCheck ==
    /\ pc = "resolve"
    /\ stages' = Append(stages, "resolve")
    /\ IF argv = "error"
       THEN Exit(<<MsgUsage, MsgArgparseError>>, 2) /\ UNCHANGED keys
       ELSE IF argv = "help"
       THEN Exit(<<MsgUsage, MsgHelp>>, 0) /\ UNCHANGED keys
       ELSE /\ keys' = ParseKeys(argK)
            /\ pc' = "load"
            /\ UNCHANGED <<printed, exitCode>>
    /\ UNCHANGED <<argv, argN, argK, argC, inputFile, data, idx, subset,
                   ioLog, jsonFile, csvFile, opened>>

\* parse_arguments(), the key list and the -n check
Resolve ==
    /\ pc = "resolve"
    /\ stages' = Append(stages, "resolve")
    /\ IF argv = "error"
       THEN Exit(<<MsgUsage, MsgArgparseError>>, 2) /\ UNCHANGED keys
       ELSE IF argv = "help"
       THEN Exit(<<MsgUsage, MsgHelp>>, 0) /\ UNCHANGED keys
       ELSE /\ keys' = ParseKeys(argK)
            /\ IF Len(keys') # argN
               THEN Exit(<<MsgCount>>, 1)
               ELSE pc' = "load" /\ UNCHANGED <<printed, exitCode>>
    /\ UNCHANGED <<argv, argN, argK, argC, inputFile, data, idx, subset,
                   ioLog, jsonFile, csvFile, opened>>

\* load_json_file(args.f)
LoadJsonFile ==
    /\ pc = "load"
    /\ stages' = Append(stages, "load")
    /\ CASE inputFile.state = "missing" ->
               /\ ioLog' = ioLog \o <<"isfile">>
               /\ Exit(<<MsgFile>>, 1)
               /\ UNCHANGED data
         [] inputFile.state = "unreadable" ->
               /\ ioLog' = ioLog \o <<"isfile", "open">>
               /\ Exit(<<MsgFile>>, 1)
               /\ UNCHANGED data
         [] inputFile.state = "invalid" ->
               /\ ioLog' = ioLog \o <<"isfile", "open", "read">>
               /\ Exit(<<MsgFile>>, 1)
               /\ UNCHANGED data
         [] OTHER ->
               /\ ioLog' = ioLog \o <<"isfile", "open", "read">>
               /\ data' = [islist |-> inputFile.state = "list",
                           items |-> JsonLoad(inputFile.items)]
               /\ pc' = "validate"
               /\ UNCHANGED <<printed, exitCode>>
    /\ UNCHANGED <<argv, argN, argK, argC, inputFile, keys, idx, subset,
                   jsonFile, csvFile, opened>>

\* variant: the top-level value is not checked
CheckIsList_NoCheck ==
    /\ pc = "validate"
    /\ stages' = Append(stages, "validate")
    /\ pc' = "project"
    /\ UNCHANGED <<argv, argN, argK, argC, inputFile, keys, data, idx, subset,
                   printed, exitCode, ioLog, jsonFile, csvFile, opened>>

\* if not isinstance(data, list)
CheckIsList ==
    /\ pc = "validate"
    /\ stages' = Append(stages, "validate")
    /\ IF ~data.islist
       THEN Exit(<<MsgFile>>, 1)
       ELSE pc' = "project" /\ UNCHANGED <<printed, exitCode>>
    /\ UNCHANGED <<argv, argN, argK, argC, inputFile, keys, data, idx, subset,
                   ioLog, jsonFile, csvFile, opened>>

\* extract_keys: subset = [] and the start of the loop
ExtractKeysBegin ==
    /\ pc = "project"
    /\ stages' = Append(stages, "project")
    /\ subset' = <<>>
    /\ idx' = 1
    /\ pc' = "project_loop"
    /\ UNCHANGED <<argv, argN, argK, argC, inputFile, keys, data, printed,
                   exitCode, ioLog, jsonFile, csvFile, opened>>

\* variant: an object lacking a requested key is skipped
ExtractKeysItem_SkipMissing ==
    /\ pc = "project_loop"
    /\ idx <= Len(data.items)
    /\ LET item == data.items[idx]
       IN IF ~item.isdict
          THEN Exit(<<MsgFile>>, 1) /\ UNCHANGED <<subset, idx>>
          ELSE IF MissingKey(item, keys)
          THEN idx' = idx + 1 /\ UNCHANGED <<subset, pc, printed, exitCode>>
          ELSE /\ subset' = Append(subset, NewItem(item, keys))
               /\ idx' = idx + 1
               /\ UNCHANGED <<pc, printed, exitCode>>
    /\ UNCHANGED <<argv, argN, argK, argC, inputFile, keys, data, ioLog,
                   stages, jsonFile, csvFile, opened>>

\* variant: an element that is no object is skipped
ExtractKeysItem_SkipNonObject ==
    /\ pc = "project_loop"
    /\ idx <= Len(data.items)
    /\ LET item == data.items[idx]
       IN IF ~item.isdict
          THEN idx' = idx + 1 /\ UNCHANGED <<subset, pc, printed, exitCode>>
          ELSE IF MissingKey(item, keys)
          THEN Exit(<<MsgKey>>, 1) /\ UNCHANGED <<subset, idx>>
          ELSE /\ subset' = Append(subset, NewItem(item, keys))
               /\ idx' = idx + 1
               /\ UNCHANGED <<pc, printed, exitCode>>
    /\ UNCHANGED <<argv, argN, argK, argC, inputFile, keys, data, ioLog,
                   stages, jsonFile, csvFile, opened>>

\* extract_keys: one iteration of "for item in data"
ExtractKeysItem ==
    /\ pc = "project_loop"
    /\ idx <= Len(data.items)
    /\ LET item == data.items[idx]
       IN IF ~item.isdict
          THEN Exit(<<MsgFile>>, 1) /\ UNCHANGED <<subset, idx>>
          ELSE IF MissingKey(item, keys)
          THEN Exit(<<MsgKey>>, 1) /\ UNCHANGED <<subset, idx>>
          ELSE /\ subset' = Append(subset, NewItem(item, keys))
               /\ idx' = idx + 1
               /\ UNCHANGED <<pc, printed, exitCode>>
    /\ UNCHANGED <<argv, argN, argK, argC, inputFile, keys, data, ioLog,
                   stages, jsonFile, csvFile, opened>>

\* extract_keys: return subset
ExtractKeysReturn ==
    /\ pc = "project_loop"
    /\ idx > Len(data.items)
    /\ pc' = "emit"
    /\ UNCHANGED <<argv, argN, argK, argC, inputFile, keys, data, idx, subset,
                   printed, exitCode, ioLog, stages, jsonFile, csvFile, opened>>

\* variant: a failed write is reported but the run exits with code 0
OutputJson_ExitZero ==
    /\ pc = "emit"
    /\ ~argC
    /\ stages' = Append(stages, "emit")
    /\ \/ /\ Exit(<<MsgJsonErr>>, 0)
          /\ UNCHANGED <<jsonFile, opened>>
       \/ /\ \E part \in Prefixes(JsonDump(subset)) \ {JsonDump(subset)} :
                 jsonFile' = [state |-> "partial", content |-> part]
          /\ opened' = opened \cup {"json_output.json"}
          /\ Exit(<<MsgJsonErr>>, 0)
       \/ /\ jsonFile' = [state |-> "written", content |-> JsonDump(subset)]
          /\ opened' = opened \cup {"json_output.json"}
          /\ Exit(<<MsgJsonOk>>, 0)
    /\ UNCHANGED <<argv, argN, argK, argC, inputFile, keys, data, idx, subset,
                   ioLog, csvFile>>

\* output_json(subset_data): open() may fail, json.dump() may fail part-way
OutputJson ==
    /\ pc = "emit"
    /\ ~argC
    /\ stages' = Append(stages, "emit")
    /\ \/ /\ Exit(<<MsgJsonErr>>, 1)
          /\ UNCHANGED <<jsonFile, opened>>
       \/ /\ \E part \in Prefixes(JsonDump(subset)) \ {JsonDump(subset)} :
                 jsonFile' = [state |-> "partial", content |-> part]
          /\ opened' = opened \cup {"json_output.json"}
          /\ Exit(<<MsgJsonErr>>, 1)
       \/ /\ jsonFile' = [state |-> "written", content |-> JsonDump(subset)]
          /\ opened' = opened \cup {"json_output.json"}
          /\ Exit(<<MsgJsonOk>>, 0)
    /\ UNCHANGED <<argv, argN, argK, argC, inputFile, keys, data, idx, subset,
                   ioLog, csvFile>>

\* variant: the CSV emitter also truncates json_output.json
OutputCsv_TouchesJson ==
    /\ pc = "emit"
    /\ argC
    /\ stages' = Append(stages, "emit")
    /\ \/ /\ Exit(<<MsgCsvErr>>, 1)
          /\ UNCHANGED <<csvFile, jsonFile, opened>>
       \/ /\ \E part \in Prefixes(CsvRows(subset, keys)) \ {CsvRows(subset, keys)} :
                 csvFile' = [state |-> "partial", content |-> part]
          /\ jsonFile' = [state |-> "partial", content |-> <<>>]
          /\ opened' = opened \cup {"json_output.csv", "json_output.json"}
          /\ Exit(<<MsgCsvErr>>, 1)
       \/ /\ csvFile' = [state |-> "written", content |-> CsvRows(subset, keys)]
          /\ jsonFile' = [state |-> "partial", content |-> <<>>]
          /\ opened' = opened \cup {"json_output.csv", "json_output.json"}
          /\ Exit(<<MsgCsvOk>>, 0)
    /\ UNCHANGED <<argv, argN, argK, argC, inputFile, keys, data, idx, subset,
                   ioLog>>

\* output_csv(subset_data, keys): open() may fail, a write may fail part-way
OutputCsv ==
    /\ pc = "emit"
    /\ argC
    /\ stages' = Append(stages, "emit")
    /\ \/ /\ Exit(<<MsgCsvErr>>, 1)
          /\ UNCHANGED <<csvFile, opened>>
       \/ /\ \E part \in Prefixes(CsvRows(subset, keys)) \ {CsvRows(subset, keys)} :
                 csvFile' = [state |-> "partial", content |-> part]
          /\ opened' = opened \cup {"json_output.csv"}
          /\ Exit(<<MsgCsvErr>>, 1)
       \/ /\ csvFile' = [state |-> "written", content |-> CsvRows(subset, keys)]
          /\ opened' = opened \cup {"json_output.csv"}
          /\ Exit(<<MsgCsvOk>>, 0)
    /\ UNCHANGED <<argv, argN, argK, argC, inputFile, keys, data, idx, subset,
                   ioLog, jsonFile>>

Next ==
    \/ Resolve
    \/ LoadJsonFile
    \/ CheckIsList
    \/ ExtractKeysBegin
    \/ ExtractKeysItem
    \/ ExtractKeysReturn
    \/ OutputJson
    \/ OutputCsv

Spec == Init /\ [][Next]_vars

\* ============================================================ properties
\* The number of comma-separated segments of s holding a non-blank
\* character, counted by the position of each segment's first such character.
TokenCount(s) ==
    Cardinality({p \in 1..Len(s) :
        /\ s[p] \notin Whitespace \cup {Comma}
        /\ \A q \in 1..(p-1) :
              (\A r \in q..(p-1) : s[r] # Comma) => s[q] \in Whitespace})

Accepted == argv = "ok"
CountOK == Accepted /\ TokenCount(argK) = argN
NothingWritten == Untouched(jsonFile) /\ Untouched(csvFile) /\ opened = {}
Failed(msg) == pc = "exit" /\ exitCode = 1 /\ printed = <<msg>>
Entered(stage) == \E i \in 1..Len(stages) : stages[i] = stage

\* extract_keys has returned
Projected == pc = "emit" \/ Entered("emit")

ElementOK(e, ks) == e.isdict /\ ~MissingKey(e, ks)
AllElementsOK == \A i \in 1..Len(inputFile.items) : ElementOK(inputFile.items[i], keys)
ValidRun == CountOK /\ inputFile.state = "list" /\ pc # "resolve" /\ AllElementsOK

\* index of the first element that is no object or lacks a requested key
FirstInvalid(items, ks) ==
    CHOOSE i \in 1..Len(items) :
        /\ ~ElementOK(items[i], ks)
        /\ \A j \in 1..(i-1) : ElementOK(items[j], ks)

RecKeys(rec) == [j \in 1..Len(rec) |-> rec[j][1]]
Distinct(ks) == \A i, j \in 1..Len(ks) : ks[i] = ks[j] => i = j
FirstIndex(ks, k) == CHOOSE i \in 1..Len(ks) : ks[i] = k /\ \A j \in 1..(i-1) : ks[j] # k

\* rk lists each key of ks once, ordered by first occurrence in ks
IsFirstOccurrenceOrder(rk, ks) ==
    /\ Distinct(rk)
    /\ {rk[j] : j \in 1..Len(rk)} = {ks[j] : j \in 1..Len(ks)}
    /\ \A i, j \in 1..Len(rk) : i < j => FirstIndex(ks, rk[i]) < FirstIndex(ks, rk[j])

ValuesFromSource(i) ==
    \A j \in 1..Len(subset[i]) :
        subset[i][j][2] = data.items[i].map[subset[i][j][1]]

\* C1 as stated: in a valid run extract_keys returns one record per input
\* element, in input order, and every record has exactly len(KeySpec) keys
\* in KeySpec order, also when the KeySpec repeats a key.
C1_AsStated ==
    ValidRun =>
        /\ pc = "exit" => Entered("emit")
        /\ Projected =>
              /\ Len(subset) = Len(data.items)
              /\ \A i \in 1..Len(subset) :
                    /\ RecKeys(subset[i]) = keys
                    /\ ValuesFromSource(i)

\* C1 amended: in a valid run extract_keys returns one record per input
\* element, in input order, each record holding one entry per distinct
\* KeySpec key, ordered by first occurrence in the KeySpec, with the value
\* of that key in the element of the same index; this is len(KeySpec) keys
\* in KeySpec order exactly when the KeySpec repeats no key.
C1_Projection ==
    ValidRun =>
        /\ pc = "exit" => Entered("emit")
        /\ Projected =>
              /\ Len(subset) = Len(data.items)
              /\ \A i \in 1..Len(subset) :
                    /\ IsFirstOccurrenceOrder(RecKeys(subset[i]), keys)
                    /\ Distinct(keys) <=> RecKeys(subset[i]) = keys
                    /\ Distinct(keys) <=> Len(subset[i]) = Len(keys)
                    /\ ValuesFromSource(i)

C1_Witness ==
    /\ ValidRun /\ Projected
    /\ Len(subset) = 2
    /\ keys = << <<"b">>, <<"a">> >>
    /\ subset[1] # subset[2]

SomeRecordLacksKey ==
    /\ CountOK /\ inputFile.state = "list"
    /\ \E i \in 1..Len(inputFile.items) :
          inputFile.items[i].isdict /\ MissingKey(inputFile.items[i], ParseKeys(argK))

\* C2 as stated: when the key count matches and the file holds a list, a
\* KeySpec key absent from some input record makes the run fail with the
\* key message and exit code 1, and no output file is written.
C2_AsStated ==
    SomeRecordLacksKey =>
        /\ pc # "emit"
        /\ pc = "exit" => Failed(MsgKey) /\ NothingWritten

\* C2 amended: under the same condition the run fails with exit code 1 and
\* writes no output file; the message is the key message when the first
\* element that is no object or lacks a key is an object, and the file
\* message when it is no object.
C2_KeyAbsent ==
    SomeRecordLacksKey =>
        /\ pc # "emit"
        /\ pc = "exit" =>
              /\ NothingWritten
              /\ LET bad == inputFile.items[FirstInvalid(inputFile.items, keys)]
                 IN IF bad.isdict THEN Failed(MsgKey) ELSE Failed(MsgFile)

C2_Witness ==
    /\ SomeRecordLacksKey
    /\ Failed(MsgKey)
    /\ idx = 2
    /\ Len(subset) = 1

\* C3: a -k string whose token count differs from -n makes the run fail
\* with the count message and exit code 1 in the Resolve stage: the input
\* file is not checked, opened or read and no output file is written,
\* whatever -f names.
C3_CountMismatch ==
    (Accepted /\ TokenCount(argK) # argN /\ pc # "resolve") =>
        /\ Failed(MsgCount)
        /\ stages = <<"resolve">>
        /\ ioLog = <<>>
        /\ NothingWritten

C3_Witness ==
    /\ Accepted /\ TokenCount(argK) # argN
    /\ Failed(MsgCount)
    /\ inputFile.state = "list"
    /\ Len(inputFile.items) = 2
    /\ jsonFile.state = "old"

\* ks is the KeySpec of s: the keys are non-empty, blank-trimmed, comma-free
\* pieces of s, in the order they occur, one per comma-separated segment,
\* and every non-blank character of s belongs to one of them
IsKeySpecOf(ks, s) ==
    \E st \in [1..Len(ks) -> 1..Len(s)] :
        /\ \A i \in 1..Len(ks) :
              /\ Len(ks[i]) > 0
              /\ st[i] + Len(ks[i]) - 1 <= Len(s)
              /\ SubSeq(s, st[i], st[i] + Len(ks[i]) - 1) = ks[i]
              /\ ks[i][1] \notin Whitespace
              /\ ks[i][Len(ks[i])] \notin Whitespace
              /\ \A p \in 1..Len(ks[i]) : ks[i][p] # Comma
        /\ \A i \in 1..(Len(ks) - 1) :
              \E c \in (st[i] + Len(ks[i]))..(st[i+1] - 1) : s[c] = Comma
        /\ \A p \in 1..Len(s) :
              s[p] \notin Whitespace \cup {Comma} =>
                  \E i \in 1..Len(ks) : st[i] <= p /\ p <= st[i] + Len(ks[i]) - 1

\* C4: the KeySpec is the -k string split on commas, each token trimmed and
\* empty tokens dropped, order and duplicates kept; its length, duplicates
\* included, is what is compared with -n.
C4_KeySpec ==
    (Accepted /\ pc # "resolve") =>
        /\ IsKeySpecOf(keys, argK)
        /\ Len(keys) = TokenCount(argK)
        /\ Failed(MsgCount) <=> Len(keys) # argN
        /\ Entered("load") \/ pc = "load" <=> Len(keys) = argN

C4_Witness ==
    /\ Accepted /\ pc = "load"
    /\ keys = << <<"a">>, <<"a">> >>
    /\ argN = 2

\* the Projector reaches an element that is no object: every element before
\* it is an object holding every requested key
ReachesNonObject ==
    /\ inputFile.state = "list"
    /\ \E i \in 1..Len(inputFile.items) :
          /\ ~inputFile.items[i].isdict
          /\ \A j \in 1..(i-1) : ElementOK(inputFile.items[j], ParseKeys(argK))

\* C5: once the key count is accepted, a missing file, an unparsable file, a
\* top-level value that is no list, and a non-object element reached by the
\* Projector each end the run with the one file message, exit code 1 and no
\* output file; the stages after the failing one are not entered.
C5_FileError ==
    CountOK =>
        /\ inputFile.state \in {"missing", "unreadable", "invalid"} =>
              /\ pc \in {"resolve", "load", "exit"}
              /\ pc = "exit" => stages = <<"resolve", "load">>
        /\ inputFile.state = "nonlist" =>
              /\ pc \in {"resolve", "load", "validate", "exit"}
              /\ pc = "exit" => stages = <<"resolve", "load", "validate">>
        /\ ReachesNonObject =>
              /\ pc # "emit"
              /\ pc = "exit" => stages = <<"resolve", "load", "validate", "project">>
        /\ (inputFile.state # "list" \/ ReachesNonObject) /\ pc = "exit" =>
              Failed(MsgFile) /\ NothingWritten

C5_Witness ==
    /\ CountOK /\ ReachesNonObject
    /\ Failed(MsgFile)
    /\ idx = 2
    /\ Len(keys) = 1

\* the mapping a projected record stands for
AsMap(rec) == [k \in {rec[j][1] : j \in 1..Len(rec)} |-> Get(rec, k)]

\* every element is an object with the key set K, and the KeySpec lists the
\* keys of K, each once, in some order
FullKeySpec ==
    /\ CountOK /\ inputFile.state = "list" /\ pc # "resolve"
    /\ Distinct(keys)
    /\ \A i \in 1..Len(inputFile.items) :
          /\ inputFile.items[i].isdict
          /\ DOMAIN inputFile.items[i].map = {keys[j] : j \in 1..Len(keys)}

\* C6: when every record has the key set K and the KeySpec lists exactly the
\* keys of K, the i-th projected record equals, as a mapping, the i-th
\* loaded record.
C6_RoundTrip ==
    (FullKeySpec /\ Projected) =>
        /\ Len(subset) = Len(data.items)
        /\ \A i \in 1..Len(subset) : AsMap(subset[i]) = data.items[i].map

C6_Witness ==
    /\ FullKeySpec /\ Projected
    /\ keys = << <<"b">>, <<"a">> >>
    /\ Len(subset) = 2
    /\ data.items[1].map[<<"a">>] # data.items[1].map[<<"b">>]
    /\ data.items[1] # data.items[2]

IsPrefix(s, t) == Len(s) <= Len(t) /\ SubSeq(t, 1, Len(s)) = s

ErrorMessages == {MsgCount, MsgFile, MsgKey, MsgJsonErr, MsgCsvErr}

StageOrder ==
    /\ IsPrefix(stages, Stages)
    /\ pc = "resolve" => stages = <<>>
    /\ pc = "load" => stages = <<"resolve">>
    /\ pc = "validate" => stages = <<"resolve", "load">>
    /\ pc = "project" => stages = <<"resolve", "load", "validate">>
    /\ pc \in {"project_loop", "emit"} =>
          stages = <<"resolve", "load", "validate", "project">>
    /\ pc = "exit" => stages # <<>>
    /\ pc # "exit" => exitCode = -1 /\ printed = <<>>
    /\ pc = "exit" <=> ~ENABLED Next

EmitSucceeded ==
    /\ stages = Stages
    /\ IF argC
       THEN csvFile.state = "written" /\ printed = <<MsgCsvOk>>
       ELSE jsonFile.state = "written" /\ printed = <<MsgJsonOk>>

FailedOnce ==
    /\ exitCode = 1
    /\ Len(printed) = 1
    /\ printed[1] \in ErrorMessages
    /\ ~(argC /\ csvFile.state = "written")
    /\ ~(~argC /\ jsonFile.state = "written")

\* C7 as stated: the stages are entered in order, each at most once, and
\* every run ends either with exit code 0 after Emit succeeded or with exit
\* code 1 and exactly one diagnostic line at the first failing stage.
C7_AsStated ==
    /\ StageOrder
    /\ pc = "exit" => (exitCode = 0 /\ EmitSucceeded) \/ FailedOnce

\* C7 amended: the stages are entered in order, each at most once; a run
\* whose command line the argument parser accepts ends either with exit
\* code 0 after Emit succeeded or with exit code 1 and exactly one
\* diagnostic line at the first failing stage; a run whose command line the
\* parser rejects ends in Resolve with exit code 2 after the usage and
\* error lines, and a run given -h ends in Resolve with exit code 0 after
\* the help text.
C7_Stages ==
    /\ StageOrder
    /\ (pc = "exit" /\ Accepted) => (exitCode = 0 /\ EmitSucceeded) \/ FailedOnce
    /\ (pc = "exit" /\ argv = "error") =>
          exitCode = 2 /\ stages = <<"resolve">> /\ Len(printed) = 2 /\ NothingWritten
    /\ (pc = "exit" /\ argv = "help") =>
          exitCode = 0 /\ stages = <<"resolve">> /\ Len(printed) = 2 /\ NothingWritten

C7_Witness ==
    /\ pc = "exit" /\ Accepted
    /\ exitCode = 1
    /\ stages = Stages
    /\ Len(data.items) = 2

\* C8: a successful run with -c leaves in json_output.csv the header row,
\* whose cells are the KeySpec keys in order, followed by one row per input
\* element in input order, whose j-th cell is the text of the value of the
\* j-th KeySpec key in that element: len(input) + 1 rows in all.  A write
\* that fails part-way leaves a proper prefix of these rows.
C8_CsvRows ==
    (Accepted /\ argC /\ csvFile.state \in {"written", "partial"}) =>
        LET rows == csvFile.content
        IN /\ csvFile.state = "written" <=> exitCode = 0
           /\ csvFile.state = "written" => Len(rows) = Len(inputFile.items) + 1
           /\ csvFile.state = "partial" => Len(rows) < Len(inputFile.items) + 1
           /\ Len(rows) >= 1 => rows[1] = keys
           /\ \A i \in 1..(Len(rows) - 1) :
                 /\ Len(rows[i+1]) = Len(keys)
                 /\ \A j \in 1..Len(keys) :
                       rows[i+1][j] = CsvCell(data.items[i].map[keys[j]])

C8_Witness ==
    /\ Accepted /\ argC /\ exitCode = 0
    /\ csvFile.state = "written"
    /\ Len(csvFile.content) = 3
    /\ keys = << <<"b">>, <<"a">> >>
    /\ csvFile.content[2] = <<"", "True">>
    /\ csvFile.content[3] = <<"True", "">>

AbortedInProject ==
    pc = "exit" /\ stages = <<"resolve", "load", "validate", "project">>

\* C9: the Projector stops at the first element, in list order, that is no
\* object or lacks a KeySpec key; the message is the one for that element,
\* no later element is examined, and nothing is written, the records built
\* for the earlier elements included.
C9_FailFast ==
    /\ pc = "project_loop" =>
          /\ idx \in 1..(Len(data.items) + 1)
          /\ Len(subset) = idx - 1
          /\ \A j \in 1..(idx - 1) : ElementOK(data.items[j], keys)
    /\ Projected => \A j \in 1..Len(data.items) : ElementOK(data.items[j], keys)
    /\ AbortedInProject =>
          /\ idx = FirstInvalid(data.items, keys)
          /\ Len(subset) = idx - 1
          /\ IF data.items[idx].isdict THEN Failed(MsgKey) ELSE Failed(MsgFile)
          /\ NothingWritten

C9_Witness ==
    /\ AbortedInProject
    /\ idx = 1
    /\ Len(data.items) = 2
    /\ ~data.items[1].isdict
    /\ data.items[2].isdict /\ MissingKey(data.items[2], keys)
    /\ Failed(MsgFile)

OwnFile == IF argC THEN "json_output.csv" ELSE "json_output.json"

C10_State ==
    /\ opened \subseteq {OwnFile}
    /\ argC => Untouched(jsonFile)
    /\ ~argC => Untouched(csvFile)
    /\ ~Entered("emit") => NothingWritten
    /\ (pc = "exit" /\ exitCode = 0 /\ Accepted) => opened = {OwnFile}
    /\ "json_output.json" \in opened <=> ~Untouched(jsonFile)
    /\ "json_output.csv" \in opened <=> ~Untouched(csvFile)

C10_Step ==
    /\ pc # "emit" => UNCHANGED <<jsonFile, csvFile, opened>>
    /\ argC => jsonFile' = jsonFile
    /\ ~argC => csvFile' = csvFile

\* C10: a run opens at most one output file, json_output.csv with -c and
\* json_output.json without, and leaves the other as it was; a run that
\* fails before Emit opens neither and both keep their earlier contents.
C10_Frame == []C10_State /\ [][C10_Step]_vars

C10_Witness ==
    /\ pc = "exit" /\ argC
    /\ csvFile.state = "written"
    /\ jsonFile.state = "old"
    /\ opened = {"json_output.csv"}

====
